---------------------------- MODULE Spec2Model ----------------------------
(***************************************************************************)
(* LLM Performance Visualiser (src/src/App.jsx): the analytical            *)
(* throughput model (parameter count, operation count, memory reads,       *)
(* additive roofline) and the reactive pipeline around it (debounced       *)
(* configuration text, undebounced hardware parameters, published curve).  *)
(***************************************************************************)
EXTENDS Integers, Sequences, FiniteSets, TLC

(***************************************************************************)
(* JavaScript values.  Every value is a record [k, n, d, s]:                *)
(*   k = "undef" | "null" | "bool" (n = 0/1) | "str" (s) |                  *)
(*       "num" (the rational n/d, d > 0, in lowest terms) |                 *)
(*       "inf" (n = 1 or -1) | "nan".                                       *)
(* A finite double is modelled by the exact rational it stands for;         *)
(* rounding and the sign of zero are not modelled.                          *)
(***************************************************************************)
Abs(i) == IF i < 0 THEN -i ELSE i

Sgn(i) == IF i < 0 THEN -1 ELSE IF i = 0 THEN 0 ELSE 1

RECURSIVE Gcd(_, _)
Gcd(a, b) == IF b = 0 THEN a ELSE Gcd(b, a % b)

Undefined == [k |-> "undef", n |-> 0, d |-> 1, s |-> ""]

Null == [k |-> "null", n |-> 0, d |-> 1, s |-> ""]

Bool(b) == [k |-> "bool", n |-> IF b THEN 1 ELSE 0, d |-> 1, s |-> ""]

Str(t) == [k |-> "str", n |-> 0, d |-> 1, s |-> t]

NaN == [k |-> "nan", n |-> 0, d |-> 1, s |-> ""]

Inf(sign) == [k |-> "inf", n |-> sign, d |-> 1, s |-> ""]

\* the number p/q (q # 0) in lowest terms
Rat(p, q) ==
  LET g == Gcd(Abs(p), Abs(q))
      sg == IF q < 0 THEN -1 ELSE 1
  IN  [k |-> "num", n |-> sg * (p \div g), d |-> sg * (q \div g), s |-> ""]

Num(i) == [k |-> "num", n |-> i, d |-> 1, s |-> ""]

IsFinite(v) == v.k = "num"

IsInteger(v) == v.k = "num" /\ v.d = 1

\* ToNumber: undefined -> NaN, null -> 0, booleans -> 0/1; the strings of the
\* model ("silu", "float16", ...) are not numeric literals, so they give NaN
ToNumber(v) ==
  CASE v.k = "undef" -> NaN
    [] v.k = "null" -> Num(0)
    [] v.k = "bool" -> Num(v.n)
    [] v.k = "str" -> NaN
    [] OTHER -> v

\* ToBoolean
Truthy(v) ==
  CASE v.k = "undef" -> FALSE
    [] v.k = "null" -> FALSE
    [] v.k = "nan" -> FALSE
    [] v.k = "str" -> v.s # ""
    [] v.k = "inf" -> TRUE
    [] OTHER -> v.n # 0

JSign(v) == Sgn(v.n)

\* a + b
JAdd(x, y) ==
  IF x.k = "num" /\ y.k = "num"
  THEN IF x.d = 1 /\ y.d = 1 THEN Num(x.n + y.n)
       ELSE LET g == Gcd(x.d, y.d)
            IN  Rat(x.n * (y.d \div g) + y.n * (x.d \div g), (x.d \div g) * y.d)
  ELSE LET a == ToNumber(x)
           b == ToNumber(y)
       IN  CASE a.k = "nan" \/ b.k = "nan" -> NaN
             [] a.k = "inf" /\ b.k = "inf" -> IF a.n = b.n THEN a ELSE NaN
             [] a.k = "inf" -> a
             [] b.k = "inf" -> b
             [] OTHER -> Rat(a.n * b.d + b.n * a.d, a.d * b.d)

\* a * b
JMul(x, y) ==
  IF x.k = "num" /\ y.k = "num"
  THEN IF x.d = 1 /\ y.d = 1 THEN Num(x.n * y.n)
       ELSE LET g1 == Gcd(Abs(x.n), y.d)
                g2 == Gcd(Abs(y.n), x.d)
            IN  [k |-> "num", n |-> (x.n \div g1) * (y.n \div g2),
                 d |-> (x.d \div g2) * (y.d \div g1), s |-> ""]
  ELSE LET a == ToNumber(x)
           b == ToNumber(y)
       IN  CASE a.k = "nan" \/ b.k = "nan" -> NaN
             [] a.k = "inf" \/ b.k = "inf" ->
                  IF JSign(a) * JSign(b) = 0 THEN NaN ELSE Inf(JSign(a) * JSign(b))
             [] OTHER -> Rat(a.n * b.n, a.d * b.d)

\* a / b
JDiv(x, y) ==
  IF x.k = "num" /\ y.k = "num" /\ y.n # 0
  THEN LET g1 == Gcd(Abs(x.n), Abs(y.n))
           g2 == Gcd(x.d, y.d)
           sg == IF y.n < 0 THEN -1 ELSE 1
       IN  [k |-> "num", n |-> sg * (x.n \div g1) * (y.d \div g2),
            d |-> sg * (x.d \div g2) * (y.n \div g1), s |-> ""]
  ELSE LET a == ToNumber(x)
           b == ToNumber(y)
       IN  CASE a.k = "nan" \/ b.k = "nan" -> NaN
             [] a.k = "inf" /\ b.k = "inf" -> NaN
             [] a.k = "inf" -> Inf(a.n * (IF b.n < 0 THEN -1 ELSE 1))
             [] b.k = "inf" -> Num(0)
             [] b.n = 0 -> IF a.n = 0 THEN NaN ELSE Inf(Sgn(a.n))
             [] OTHER -> Rat(a.n * b.d, a.d * b.n)

\* p/q < r/t for q, t > 0, by integer parts and then the reciprocals of the
\* fractional parts (no product is formed, so nothing overflows)
RECURSIVE RatLt(_, _, _, _)
RatLt(p, q, r, t) ==
  IF p \div q # r \div t THEN p \div q < r \div t
  ELSE IF r % t = 0 THEN FALSE
  ELSE IF p % q = 0 THEN TRUE
  ELSE RatLt(t, r % t, q, p % q)

\* a < b (false when either is NaN)
JLt(x, y) ==
  LET a == ToNumber(x)
      b == ToNumber(y)
  IN  CASE a.k = "nan" \/ b.k = "nan" -> FALSE
        [] a.k = "inf" /\ b.k = "inf" -> a.n < b.n
        [] a.k = "inf" -> a.n < 0
        [] b.k = "inf" -> b.n > 0
        [] OTHER -> RatLt(a.n, a.d, b.n, b.d)

JLe(x, y) == JLt(x, y) \/ (ToNumber(x).k # "nan" /\ ToNumber(x) = ToNumber(y))

\* Math.max / Math.min / Math.floor
MathMax(x, y) ==
  LET a == ToNumber(x)
      b == ToNumber(y)
  IN  IF a.k = "nan" \/ b.k = "nan" THEN NaN ELSE IF JLt(a, b) THEN b ELSE a

MathMin(x, y) ==
  LET a == ToNumber(x)
      b == ToNumber(y)
  IN  IF a.k = "nan" \/ b.k = "nan" THEN NaN ELSE IF JLt(b, a) THEN b ELSE a

MathFloor(x) ==
  LET a == ToNumber(x)
  IN  IF a.k = "num" THEN Num(a.n \div a.d) ELSE a

(***************************************************************************)
(* Configuration text.  The text field's value is a sequence of tokens:    *)
(* "{", "}", ",", a member `"key": value`, or a literal on its own.         *)
(* JSONparse accepts `{}`, `{ member (, member)* }` and a single literal,   *)
(* and fails (SyntaxError) on everything else, e.g. a text cut short.       *)
(***************************************************************************)
LBrace == [t |-> "{", key |-> "", val |-> Undefined]

RBrace == [t |-> "}", key |-> "", val |-> Undefined]

Comma == [t |-> ",", key |-> "", val |-> Undefined]

Member(key, val) == [t |-> "member", key |-> key, val |-> val]

Lit(val) == [t |-> "lit", key |-> "", val |-> val]

FieldNames ==
  {"hidden_size", "num_hidden_layers", "intermediate_size", "vocab_size",
   "hidden_act", "tie_word_embeddings", "num_attention_heads",
   "num_key_value_heads", "torch_dtype"}

NoFields == [f \in FieldNames |-> Undefined]

SyntaxError == [k |-> "err", f |-> NoFields, v |-> Undefined]

Object(f) == [k |-> "obj", f |-> f, v |-> Undefined]

Primitive(v) == [k |-> "prim", f |-> NoFields, v |-> v]

\* the members of an object after its opening brace: toks[i] is where a
\* member is expected; a later duplicate key overrides an earlier one
RECURSIVE ParseMembers(_, _, _)
ParseMembers(toks, i, f) ==
  IF i > Len(toks) \/ toks[i].t # "member" THEN SyntaxError
  ELSE LET g == IF toks[i].key \in FieldNames
                THEN [f EXCEPT ![toks[i].key] = toks[i].val] ELSE f
       IN  IF i + 1 = Len(toks) /\ toks[i + 1].t = "}" THEN Object(g)
           ELSE IF i + 1 < Len(toks) /\ toks[i + 1].t = ","
                THEN ParseMembers(toks, i + 2, g)
                ELSE SyntaxError

\* JSON.parse(cfg)
JSONparse(toks) ==
  IF Len(toks) = 0 THEN SyntaxError
  ELSE IF toks[1].t = "lit"
       THEN IF Len(toks) = 1 THEN Primitive(toks[1].val) ELSE SyntaxError
  ELSE IF toks[1].t # "{" THEN SyntaxError
  ELSE IF Len(toks) = 2 /\ toks[2].t = "}" THEN Object(NoFields)
  ELSE ParseMembers(toks, 2, NoFields)

\* m.name: undefined on a number or a boolean; on null the access throws
\* (see Throws)
Get(m, name) == IF m.k = "obj" THEN m.f[name] ELSE Undefined

\* reading a property of m throws a TypeError
Throws(m) == m.k = "prim" /\ m.v.k \in {"null", "undef"}

(***************************************************************************)
(* Core calculations                                                        *)
(***************************************************************************)
GatedActs == {"silu", "swiglu", "geglu"}

\* ["silu", "swiglu", "geglu"].includes(hidden_act)
isGated(m) ==
  LET a == Get(m, "hidden_act") IN a.k = "str" /\ a.s \in GatedActs

\* a faulty variant: the factor of the tied embeddings swapped
calculateModelParametersTieSwapped(m) ==
  LET hidden_size == Get(m, "hidden_size")
      embed == JMul(JMul(Get(m, "vocab_size"), hidden_size),
                    IF Truthy(Get(m, "tie_word_embeddings")) THEN Num(2) ELSE Num(1))
      head_size == JDiv(hidden_size, Get(m, "num_attention_heads"))
      attn == JAdd(JMul(Num(2), JMul(hidden_size, hidden_size)),
                   JMul(JMul(JMul(Num(2), hidden_size), Get(m, "num_key_value_heads")),
                        head_size))
      ffn == JMul(JMul(IF isGated(m) THEN Num(3) ELSE Num(2), hidden_size),
                  Get(m, "intermediate_size"))
      ln == JMul(Num(4), hidden_size)
  IN  JAdd(embed, JMul(Get(m, "num_hidden_layers"), JAdd(JAdd(attn, ffn), ln)))

calculateModelParameters(m) ==
  LET hidden_size == Get(m, "hidden_size")
      num_hidden_layers == Get(m, "num_hidden_layers")
      intermediate_size == Get(m, "intermediate_size")
      vocab_size == Get(m, "vocab_size")
      num_attention_heads == Get(m, "num_attention_heads")
      num_key_value_heads == Get(m, "num_key_value_heads")
      embed == JMul(JMul(vocab_size, hidden_size),
                    IF Truthy(Get(m, "tie_word_embeddings")) THEN Num(1) ELSE Num(2))
      head_size == JDiv(hidden_size, num_attention_heads)
      attn == JAdd(JMul(Num(2), JMul(hidden_size, hidden_size)),
                   JMul(JMul(JMul(Num(2), hidden_size), num_key_value_heads), head_size))
      ffn == JMul(JMul(IF isGated(m) THEN Num(3) ELSE Num(2), hidden_size),
                  intermediate_size)
      ln == JMul(Num(4), hidden_size)
  IN  JAdd(embed, JMul(num_hidden_layers, JAdd(JAdd(attn, ffn), ln)))

calculateOperations(m, seq, b) ==
  LET hidden_size == Get(m, "hidden_size")
      intermediate_size == Get(m, "intermediate_size")
      num_hidden_layers == Get(m, "num_hidden_layers")
      num_attention_heads == Get(m, "num_attention_heads")
      num_key_value_heads == Get(m, "num_key_value_heads")
      vocab_size == Get(m, "vocab_size")
      actCost == IF isGated(m) THEN Num(3) ELSE Num(1)
      kvScale == JDiv(num_key_value_heads, num_attention_heads)
      attention ==
        JAdd(JMul(JMul(Num(2), JMul(hidden_size, hidden_size)),
                  JAdd(Num(2), JMul(Num(2), kvScale))),
             JMul(JMul(Num(4), hidden_size), seq))
      feed_forward ==
        JAdd(JMul(JMul(hidden_size, intermediate_size),
                  IF isGated(m) THEN Num(6) ELSE Num(4)),
             JMul(intermediate_size,
                  IF isGated(m) THEN JAdd(actCost, Num(1)) ELSE actCost))
      lm_head == JMul(JMul(Num(2), hidden_size), vocab_size)
  IN  JMul(b, JAdd(JMul(num_hidden_layers, JAdd(attention, feed_forward)), lm_head))

\* { float32: 4, float16: 2, bfloat16: 2 }[m.torch_dtype] ?? 4
bytesPerElement(m) ==
  LET t == Get(m, "torch_dtype")
  IN  IF t.k = "str" /\ t.s \in {"float16", "bfloat16"} THEN Num(2) ELSE Num(4)

calculateMemoryReads(m, seq, b) ==
  LET kv == JMul(JMul(JMul(JMul(b, seq), Get(m, "num_hidden_layers")),
                      Get(m, "hidden_size")), Num(2))
  IN  JMul(JAdd(calculateModelParameters(m), kv), bytesPerElement(m))

\* The code divides by mem * 1e9 and flops * 1e12.  The model measures time
\* in nanoseconds, so that the two factors are 1 and 1000 and every throughput
\* is the code's divided by 1e9: zero, NaN, infinity, sign, order and equality
\* of throughputs are those of the code.
BytesPerGB == 1

OpsPerTFLOP == 1000

\* a faulty variant: the catch returns NaN
calculateThroughputNaNOnError(cfg, mem, flops, b, seq) ==
  LET m == JSONparse(cfg)
  IN  IF m.k = "err" \/ Throws(m) THEN NaN
      ELSE LET memT == JDiv(calculateMemoryReads(m, seq, b), JMul(mem, Num(BytesPerGB)))
               compT == JDiv(calculateOperations(m, seq, b), JMul(flops, Num(OpsPerTFLOP)))
           IN  JDiv(b, JAdd(memT, compT))

\* a faulty variant: the quotient inverted, (memT + compT) / b
calculateThroughputInverted(cfg, mem, flops, b, seq) ==
  LET m == JSONparse(cfg)
  IN  IF m.k = "err" \/ Throws(m) THEN Num(0)
      ELSE LET memT == JDiv(calculateMemoryReads(m, seq, b), JMul(mem, Num(BytesPerGB)))
               compT == JDiv(calculateOperations(m, seq, b), JMul(flops, Num(OpsPerTFLOP)))
           IN  JDiv(JAdd(memT, compT), b)

calculateThroughput(cfg, mem, flops, b, seq) ==
  LET m == JSONparse(cfg)
  IN  IF m.k = "err" \/ Throws(m) THEN Num(0)
      ELSE LET memT == JDiv(calculateMemoryReads(m, seq, b), JMul(mem, Num(BytesPerGB)))
               compT == JDiv(calculateOperations(m, seq, b), JMul(flops, Num(OpsPerTFLOP)))
           IN  JDiv(b, JAdd(memT, compT))


(***************************************************************************)
(* Hardware inputs: the text of a number field is a sequence of characters. *)
(***************************************************************************)
DigitChars == <<"0", "1", "2", "3", "4", "5", "6", "7", "8", "9">>

IsDigit(c) == \E i \in 1..10 : DigitChars[i] = c

DigitVal(c) == (CHOOSE i \in 1..10 : DigitChars[i] = c) - 1

\* the index after the run of digits that starts at str[i]
RECURSIVE digitRun(_, _)
digitRun(str, i) ==
  IF i <= Len(str) /\ IsDigit(str[i]) THEN digitRun(str, i + 1) ELSE i

\* the value of the digits str[i .. j-1] after the prefix of value acc
RECURSIVE digitsValue(_, _, _, _)
digitsValue(str, i, j, acc) ==
  IF i >= j THEN acc ELSE digitsValue(str, i + 1, j, 10 * acc + DigitVal(str[i]))

RECURSIVE Pow10(_)
Pow10(e) == IF e = 0 THEN 1 ELSE 10 * Pow10(e - 1)

\* parseFloat: the longest prefix [sign] digits [. digits]; NaN when it holds
\* no digit (the texts of the model have no exponent part)
parseFloat(str) ==
  LET signed == Len(str) >= 1 /\ str[1] \in {"-", "+"}
      sign == IF Len(str) >= 1 /\ str[1] = "-" THEN -1 ELSE 1
      start == IF signed THEN 2 ELSE 1
      intEnd == digitRun(str, start)
      hasDot == intEnd <= Len(str) /\ str[intEnd] = "."
      fracEnd == IF hasDot THEN digitRun(str, intEnd + 1) ELSE intEnd
      nFrac == IF hasDot THEN fracEnd - intEnd - 1 ELSE 0
  IN  IF (intEnd - start) + nFrac = 0 THEN NaN
      ELSE JAdd(Num(sign * digitsValue(str, start, intEnd, 0)),
                Rat(sign * digitsValue(str, intEnd + 1, fracEnd, 0), Pow10(nFrac)))

clamp(v, min, max) == MathMin(MathMax(v, min), max)

ranges ==
  [mem |-> [min |-> Rat(1, 10), max |-> Num(8192), step |-> Rat(1, 10)],
   flops |-> [min |-> Rat(1, 10), max |-> Num(8192), step |-> Rat(1, 10)],
   batch |-> [min |-> Num(1), max |-> Num(1024), step |-> Num(1)],
   seq |-> [min |-> Num(1024), max |-> Num(1048576), step |-> Num(1024)]]

Fields == {"mem", "flops", "batch", "seq"}

\* the value numChange hands to the setter
numValue(r, text) ==
  LET p == parseFloat(text)
  IN  clamp(IF Truthy(p) THEN p ELSE r.min, r.min, r.max)

\* the values a Slider with this range can emit: min + k * step, at most max
onSliderGrid(r, v) ==
  /\ v.k = "num" /\ JLe(r.min, v) /\ JLe(v, r.max)
  /\ IsInteger(JDiv(JAdd(v, JMul(Num(-1), r.min)), r.step))

(***************************************************************************)
(* The curve                                                                *)
(***************************************************************************)
EmptyCurve == [total |-> [x |-> <<>>, y |-> <<>>], perUser |-> [x |-> <<>>, y |-> <<>>]]

SamplesTarget == 800

\* const step = Math.max(1, Math.floor(ms / 800))
stepOf(ms) == MathMax(Num(1), MathFloor(JDiv(ms, Num(SamplesTarget))))

\* a faulty variant: the loop starts at s = 0
sampledFromZero(ms, step) ==
  [i \in 1..(MathFloor(ms).n \div step.n + 1) |-> Num((i - 1) * step.n)]

\* the values of s in `for (let s = 1; s <= ms; s += step)`: 1, 1 + step, ...
\* while s <= ms (ms >= 1 and step a positive integer, as stepOf gives them)
sampled(ms, step) ==
  [i \in 1..((MathFloor(ms).n - 1) \div step.n + 1) |-> Num(1 + (i - 1) * step.n)]

\* a faulty variant: py.push(t * bs)
curveOfTimesBatch(xs, ty, bs) ==
  [total |-> [x |-> xs, y |-> ty],
   perUser |-> [x |-> xs, y |-> [i \in DOMAIN ty |-> JMul(ty[i], bs)]]]

\* xs.push(s); ty.push(t); py.push(t / bs), and the object handed to
\* setThroughputData
curveOf(xs, ty, bs) ==
  [total |-> [x |-> xs, y |-> ty],
   perUser |-> [x |-> xs, y |-> [i \in DOMAIN ty |-> JDiv(ty[i], bs)]]]

sweep(cfg, mem, fl, bs, xs) ==
  curveOf(xs, [i \in DOMAIN xs |-> calculateThroughput(cfg, mem, fl, bs, xs[i])], bs)

\* a faulty variant: the early return is missing
skipsNothing(cfg) == FALSE

\* `if (!dCfg) return;`: the empty text is falsy
skipsUpdate(cfg) == cfg = <<>>

\* the body of the debounced curve update effect: the curve it leaves published
curveEffect(cfg, mem, fl, bs, ms, prev) ==
  IF skipsUpdate(cfg) THEN prev ELSE sweep(cfg, mem, fl, bs, sampled(ms, stepOf(ms)))

(***************************************************************************)
(* The component's state                                                    *)
(***************************************************************************)
VARIABLES
  config,           \* useState(""): the text field's value
  dCfg,             \* useDebounce's state: the debounced text
  timers,           \* pending timeouts: [id, value, left (ms until due)]
  memoryBandwidth,  \* useState(1792)
  computePower,     \* useState(209)
  batchSize,        \* useState(1)
  maxSeqLen,        \* useState(1024)
  throughputData,   \* the published curve
  edits,            \* history: config edits so far; the timer of edit k has id k
  hwEdits,          \* history: hardware edit events so far
  quiet,            \* history: ms since the last config edit, up to the delay
  last,             \* history: the last step, and whether it ran a recompute
  used,             \* history: the inputs of the latest recompute
  burst,            \* history: the current or last burst of config edits
  probe             \* the input and result of a calculation under study

vars ==
  <<config, dCfg, timers, memoryBandwidth, computePower, batchSize, maxSeqLen,
    throughputData, edits, hwEdits, quiet, last, used, burst, probe>>

hwVars == <<memoryBandwidth, computePower, batchSize, maxSeqLen>>

\* useDebounce(config, 200)
DebounceDelay == 200

\* the granularity of time in the model, in ms
TickMs == 100

\* user events (config edits and hardware edits) in a behaviour
MaxEvents == 3

EmptyText == <<>>

NoProbe ==
  [fn |-> "none", text |-> EmptyText, mem |-> Undefined, flops |-> Undefined,
   b |-> Undefined, s1 |-> Undefined, s2 |-> Undefined, out |-> Undefined,
   out2 |-> Undefined]

NoBurst ==
  [open |-> FALSE, edits |-> 0, recs |-> 0, hw |-> FALSE, late |-> FALSE,
   base |-> EmptyText]

\* the state after the first render and its effects: useDebounce has set a
\* timeout for the initial (empty) text, and the curve effect has returned
\* early on the empty debounced text
Mounted ==
  /\ config = EmptyText
  /\ dCfg = EmptyText
  /\ timers = {[id |-> 0, value |-> EmptyText, left |-> DebounceDelay]}
  /\ memoryBandwidth = Num(1792)
  /\ computePower = Num(209)
  /\ batchSize = Num(1)
  /\ maxSeqLen = Num(1024)
  /\ throughputData = EmptyCurve
  /\ edits = 0
  /\ hwEdits = 0
  /\ quiet = 0
  /\ last = [op |-> "mount", ran |-> FALSE]
  /\ used = [by |-> "none", cfg |-> EmptyText, mem |-> Num(1792), flops |-> Num(209),
             bs |-> Num(1), ms |-> Num(1024)]
  /\ burst = NoBurst

Init == Mounted /\ probe = NoProbe

\* a faulty variant: the cleanup cancels nothing
clearTimeoutNothing(ts, id) == ts

\* clearTimeout(id)
clearTimeout(ts, id) == {t \in ts : t.id # id}

\* a faulty variant: the delay is not passed on, so the timeout is due at once
setTimeoutNoDelay(ts, id, value, delay) == ts \cup {[id |-> id, value |-> value, left |-> 0]}

\* setTimeout(() => setDebounced(value), delay)
setTimeout(ts, id, value, delay) == ts \cup {[id |-> id, value |-> value, left |-> delay]}

\* the curve effect runs in this step with debounced text cfg and the primed
\* hardware values
RunCurveEffect(cfg, by) ==
  /\ throughputData' =
       curveEffect(cfg, memoryBandwidth', computePower', batchSize', maxSeqLen',
                   throughputData)
  /\ used' = IF skipsUpdate(cfg) THEN used
             ELSE [by |-> by, cfg |-> cfg, mem |-> memoryBandwidth',
                   flops |-> computePower', bs |-> batchSize', ms |-> maxSeqLen']

\* onChange of the configuration text field: setConfig(text); the value
\* changed, so useDebounce's effect is cleaned up (clearTimeout) and run again
\* (setTimeout).  The debounced text is not touched, so the curve effect does
\* not run.
setConfig(text) ==
  /\ text # config
  /\ config' = text
  /\ timers' = setTimeout(clearTimeout(timers, edits), edits + 1, text, DebounceDelay)
  /\ edits' = edits + 1
  /\ quiet' = 0
  /\ last' = [op |-> "setConfig", ran |-> FALSE]
  /\ burst' = IF burst.open
              THEN [burst EXCEPT !.edits = @ + 1,
                                 !.late = @ \/ quiet >= DebounceDelay]
              ELSE [open |-> TRUE, edits |-> 1, recs |-> 0, hw |-> FALSE,
                    late |-> FALSE, base |-> dCfg]
  /\ UNCHANGED <<dCfg, hwVars, throughputData, hwEdits, used, probe>>

\* time passes
Tick ==
  /\ \E t \in timers : t.left > 0
  /\ timers' = {[t EXCEPT !.left = IF @ > TickMs THEN @ - TickMs ELSE 0] : t \in timers}
  /\ quiet' = IF quiet + TickMs > DebounceDelay THEN DebounceDelay ELSE quiet + TickMs
  /\ last' = [op |-> "tick", ran |-> FALSE]
  /\ UNCHANGED <<config, dCfg, hwVars, throughputData, edits, hwEdits, used, burst, probe>>

\* a due timeout's callback: setDebounced(value).  When the value is the
\* current debounced text the state does not change and no effect runs;
\* otherwise the component renders with the new dCfg and the curve effect runs.
timeout(t) ==
  /\ t.left = 0
  /\ timers' = timers \ {t}
  /\ dCfg' = t.value
  /\ UNCHANGED hwVars
  /\ IF t.value = dCfg
     THEN UNCHANGED <<throughputData, used>>
     ELSE RunCurveEffect(t.value, "timer")
  /\ last' = [op |-> "timeout", ran |-> t.value # dCfg /\ ~skipsUpdate(t.value)]
  /\ burst' = IF burst.open
              THEN [burst EXCEPT !.open = FALSE,
                                 !.recs = IF last'.ran THEN @ + 1 ELSE @]
              ELSE burst
  /\ UNCHANGED <<config, edits, hwEdits, quiet, probe>>

\* a hardware setter called with v: the state changes unless v is the current
\* value, and then the curve effect runs with the current debounced text
setHardware(field, v, op) ==
  /\ memoryBandwidth' = IF field = "mem" THEN v ELSE memoryBandwidth
  /\ computePower' = IF field = "flops" THEN v ELSE computePower
  /\ batchSize' = IF field = "batch" THEN v ELSE batchSize
  /\ maxSeqLen' = IF field = "seq" THEN v ELSE maxSeqLen
  /\ IF hwVars' = hwVars
     THEN UNCHANGED <<throughputData, used>>
     ELSE RunCurveEffect(dCfg, "hardware")
  /\ last' = [op |-> op, ran |-> hwVars' # hwVars /\ ~skipsUpdate(dCfg)]
  /\ hwEdits' = hwEdits + 1
  /\ burst' = IF burst.open
              THEN [burst EXCEPT !.hw = TRUE,
                                 !.recs = IF last'.ran THEN @ + 1 ELSE @]
              ELSE burst
  /\ UNCHANGED <<config, dCfg, timers, edits, quiet, probe>>

\* onChange of a number field:
\* set(clamp(parseFloat(e.target.value) || r.min, r.min, r.max))
numChange(field, text) == setHardware(field, numValue(ranges[field], text), "numChange")

\* onChange of a slider: set(v)
slideChange(field, v) ==
  /\ onSliderGrid(ranges[field], v)
  /\ setHardware(field, v, "slideChange")

(***************************************************************************)
(* Calculations under study: the probe holds the inputs drawn in the       *)
(* initial state and, after the calculation has been applied, its results. *)
(***************************************************************************)
Probe(fn, text, hw, b, s1, s2, out, out2) ==
  [fn |-> fn, text |-> text, mem |-> hw.mem, flops |-> hw.flops, b |-> b,
   s1 |-> s1, s2 |-> s2, out |-> out, out2 |-> out2]

\* the text of a record with these members; a member whose value is
\* undefined is left out of the text
RecordText(members) ==
  LET ms == SelectSeq(members, LAMBDA mb : mb.val.k # "undef")
  IN  <<LBrace>> \o
      [i \in 1..(2 * Len(ms) - 1) |-> IF i % 2 = 1 THEN ms[(i + 1) \div 2] ELSE Comma] \o
      <<RBrace>>

ArchText(h, L, I, V, A, K, act, tie, dtype) ==
  RecordText(<<Member("hidden_size", h), Member("num_hidden_layers", L),
               Member("intermediate_size", I), Member("vocab_size", V),
               Member("hidden_act", act), Member("tie_word_embeddings", tie),
               Member("num_attention_heads", A), Member("num_key_value_heads", K),
               Member("torch_dtype", dtype)>>)

\* calculateThroughput applied at two sequence lengths
Estimate ==
  /\ probe.fn = "input"
  /\ probe' = [probe EXCEPT
       !.fn = "throughput",
       !.out = calculateThroughput(probe.text, probe.mem, probe.flops, probe.b, probe.s1),
       !.out2 = calculateThroughput(probe.text, probe.mem, probe.flops, probe.b, probe.s2)]
  /\ UNCHANGED <<config, dCfg, timers, hwVars, throughputData, edits, hwEdits,
                 quiet, last, used, burst>>

\* calculateModelParameters applied to the decoded record
CountParams ==
  /\ probe.fn = "input"
  /\ probe' = [probe EXCEPT
       !.fn = "params",
       !.out = calculateModelParameters(JSONparse(probe.text))]
  /\ UNCHANGED <<config, dCfg, timers, hwVars, throughputData, edits, hwEdits,
                 quiet, last, used, burst>>

\* the curve effect applied to a debounced text and a maximum sequence length
Sample ==
  /\ probe.fn = "input"
  /\ probe' = [probe EXCEPT
       !.fn = "sample",
       !.out = curveEffect(probe.text, probe.mem, probe.flops, probe.b, probe.s1,
                           EmptyCurve)]
  /\ UNCHANGED <<config, dCfg, timers, hwVars, throughputData, edits, hwEdits,
                 quiet, last, used, burst>>

(***************************************************************************)
(* The user's inputs in the model                                          *)
(***************************************************************************)
\* a valid architecture record: {"hidden_size": 2, "num_hidden_layers": 1, ...}
ValidText ==
  <<LBrace, Member("hidden_size", Num(2)), Comma,
    Member("num_hidden_layers", Num(1)), Comma,
    Member("intermediate_size", Num(2)), Comma,
    Member("vocab_size", Num(3)), Comma,
    Member("num_attention_heads", Num(2)), Comma,
    Member("num_key_value_heads", Num(1)), Comma,
    Member("torch_dtype", Str("float16")), RBrace>>

\* the same text cut short before its closing brace
TruncatedText == SubSeq(ValidText, 1, Len(ValidText) - 1)

Texts == {EmptyText, TruncatedText, ValidText}

TypedInputs == {[field |-> "batch", text |-> <<"2", ".", "5">>]}

SliderMoves == {[field |-> "seq", v |-> Num(2048)]}

Next ==
  \/ \E text \in Texts : edits + hwEdits < MaxEvents /\ setConfig(text)
  \/ Tick
  \/ \E t \in timers : timeout(t)
  \/ \E e \in TypedInputs : edits + hwEdits < MaxEvents /\ numChange(e.field, e.text)
  \/ \E e \in SliderMoves : edits + hwEdits < MaxEvents /\ slideChange(e.field, e.v)

Spec == Init /\ [][Next]_vars

(***************************************************************************)
(* Hardware edits alone: every number field and slider, with empty,        *)
(* non-numeric, fractional, zero, negative, below-range and over-range     *)
(* texts.  The configuration text stays empty.                              *)
(***************************************************************************)
FieldTexts ==
  {<<>>, <<"a", "b", "c">>, <<"0">>, <<"-", "5">>, <<"2", ".", "5">>, <<"3", "0", "0">>,
   <<"0", ".", "0", "5">>, <<"9", "9", "9", "9", "9", "9", "9", "9">>}

\* slider positions: the two lowest, and the highest
SliderPositions(r) == {r.min, JAdd(r.min, r.step), r.max}

NextHw ==
  \/ \E f \in Fields, text \in FieldTexts : hwEdits < MaxEvents /\ numChange(f, text)
  \/ \E f \in Fields : \E v \in SliderPositions(ranges[f]) :
       hwEdits < MaxEvents /\ slideChange(f, v)

SpecHw == Init /\ [][NextHw]_vars

(***************************************************************************)
(* The throughput estimator on architecture records, valid and not          *)
(***************************************************************************)
MaxSeq == 3

MaxBatch == 2

MaxLayers == 2

HwProfiles ==
  {[mem |-> Rat(1, 10), flops |-> Rat(1, 10)], [mem |-> Num(1792), flops |-> Num(209)]}

CalcTexts ==
  {ArchText(h, Num(L), I, Num(5), A, K, act, Undefined, dtype) :
     h \in {Num(2), Num(4)}, L \in 1..MaxLayers, I \in {Undefined, Num(3)},
     A \in {Undefined, Num(0), Num(1), Num(2)}, K \in {Num(0), Num(1), Num(2)},
     act \in {Undefined, Str("silu")}, dtype \in {Undefined, Str("float16")}}
  \cup {<<LBrace, RBrace>>, <<Lit(Num(7))>>, <<Lit(Null)>>}

InitCalc ==
  /\ Mounted
  /\ probe \in {Probe("input", text, hw, Num(b), Num(s1), Num(s2), Undefined, Undefined) :
                  text \in CalcTexts, hw \in HwProfiles, b \in 1..MaxBatch,
                  s1 \in 1..MaxSeq, s2 \in 1..MaxSeq}

SpecCalc == InitCalc /\ [][Estimate]_vars

(***************************************************************************)
(* The parameter counter on valid records                                   *)
(***************************************************************************)
Gpt2Text ==
  ArchText(Num(768), Num(12), Num(3072), Num(50257), Num(12), Num(12), Str("gelu_new"),
           Bool(TRUE), Undefined)

ParamTexts ==
  {ArchText(Num(h), Num(L), Num(I), Num(5), Num(hk[1]), Num(hk[2]), act, tie, Undefined) :
     h \in {2, 4, 6}, L \in 1..MaxLayers, I \in {3, 8},
     hk \in {<<1, 1>>, <<2, 1>>, <<2, 2>>},
     act \in {Undefined, Str("gelu"), Str("silu"), Str("swiglu"), Str("geglu")},
     tie \in {Undefined, Bool(TRUE), Bool(FALSE)}}
  \cup {Gpt2Text}

NoHw == [mem |-> Undefined, flops |-> Undefined]

InitParams ==
  /\ Mounted
  /\ probe \in {Probe("input", text, NoHw, Undefined, Undefined, Undefined, Undefined,
                      Undefined) : text \in ParamTexts}

SpecParams == InitParams /\ [][CountParams]_vars

(***************************************************************************)
(* The sampling of sequence lengths over the whole range of maxSeqLen       *)
(***************************************************************************)
MaxStride == 16

\* every 800 * j - 1, 800 * j and 800 * j + 1 in the range, for j up to
\* MaxStride, then the powers of two, the ends of the range and a fraction
SeqLens ==
  {Num(n) : n \in {800 * j + e : j \in 1..MaxStride, e \in {-1, 0, 1}} \cap 1024..1048576}
  \cup {Num(1024 * Pow2) : Pow2 \in {1, 2, 4, 8, 16, 32, 64, 128, 256, 512, 1024}}
  \cup {Num(1025), Num(1048575), Rat(3001, 2), Rat(3199, 2)}

InitSample ==
  /\ Mounted
  /\ probe \in {Probe("input", TruncatedText, [mem |-> Num(1792), flops |-> Num(209)],
                      Num(1), ms, Undefined, Undefined, Undefined) : ms \in SeqLens}

SpecSample == InitSample /\ [][Sample]_vars

(***************************************************************************)
(* Properties                                                               *)
(***************************************************************************)
\* a burst of config edits that is over (its timer has fired), in which every
\* edit came before the delay had elapsed since the one before, and during
\* which no hardware parameter was edited
BurstDone == ~burst.open /\ burst.edits >= 1 /\ ~burst.hw /\ ~burst.late

\* C1, as stated: such a burst recomputes the curve exactly once, with the
\* final text.
C1_ExactlyOneRecompute == BurstDone => burst.recs = 1 /\ used.cfg = config

\* C1, amended: such a burst recomputes the curve at most once: exactly once,
\* with the final text, when the final text is non-empty and is not the text
\* that was debounced before the burst, and not at all otherwise; a recompute
\* by the timer comes only after the delay has elapsed since the last edit, and
\* never with an intermediate text.
C1_AtMostOneRecompute ==
  /\ BurstDone =>
       /\ burst.recs = IF config # EmptyText /\ config # burst.base THEN 1 ELSE 0
       /\ burst.recs = 1 => used.cfg = config
  /\ last.op = "timeout" /\ last.ran => quiet >= DebounceDelay /\ used.cfg = config

\* a burst of two edits or more has ended with its one recompute
C1_Witness == BurstDone /\ burst.edits >= 2 /\ burst.recs = 1 /\ used.cfg = config

\* the configuration text does not decode
Malformed(cfg) == cfg # EmptyText /\ JSONparse(cfg).k = "err"

AllZero(ys) == \A i \in DOMAIN ys : ys[i] = Num(0)

UsedThroughput(i) ==
  calculateThroughput(used.cfg, used.mem, used.flops, used.bs, throughputData.total.x[i])

\* C4: the published curve is whole: total and perUser share their
\* x-coordinates, which are the sampled lengths of the latest recompute, each
\* has as many y-values as x-values, every perUser value is the total value
\* divided by the batch size of that recompute (NaN over it being NaN), and the
\* first and the last total value are both those of that recompute; before the
\* first recompute the curve is the empty one.
C4_CurveConsistent ==
  LET t == throughputData.total
      u == throughputData.perUser
  IN  /\ t.x = u.x
      /\ Len(t.y) = Len(t.x)
      /\ Len(u.y) = Len(u.x)
      /\ used.by = "none" => throughputData = EmptyCurve
      /\ used.by # "none" =>
           /\ t.x = sampled(used.ms, stepOf(used.ms))
           /\ \A i \in DOMAIN t.y : u.y[i] = JDiv(t.y[i], used.bs)
           /\ \A i \in {1, Len(t.y)} : t.y[i] = UsedThroughput(i)

\* a curve of positive throughputs is published, computed with a batch size
\* that is not 1, so that its perUser values differ from its total values
C4_Witness ==
  /\ used.by # "none" /\ used.bs # Num(1)
  /\ throughputData.total.y[1].k = "num" /\ throughputData.total.y[1].n > 0
  /\ throughputData.perUser.y[1] # throughputData.total.y[1]

\* C5, as stated: no recompute, by the timer or by a hardware edit, runs with
\* a text older than the most recent edit.
C5_NoStaleRecompute == last.ran => used.cfg = config

\* C5, amended: no recompute triggered by the debounce timer runs with a text
\* older than the most recent edit: an edit cancels the pending timer, so at
\* most one timer is pending and it carries the latest text.  A recompute
\* triggered by a hardware edit runs with the debounced text, which is older
\* than the latest edit while that edit's timer is pending.
C5_NoStaleTimerRecompute ==
  /\ Cardinality(timers) <= 1
  /\ \A t \in timers : t.value = config
  /\ last.ran => used.cfg = dCfg
  /\ last.ran /\ last.op = "timeout" => used.cfg = config

\* the timer of the second or a later edit has fired and recomputed the curve
C5_Witness == last.ran /\ last.op = "timeout" /\ edits >= 2 /\ used.cfg = config

\* C9: while the debounced text is empty no step changes the published curve,
\* whether a timer fires or a hardware parameter is edited; and the curve is
\* the empty one as long as nothing was computed.
C9_EmptyTextNoUpdate ==
  /\ [][dCfg' = EmptyText => throughputData' = throughputData]_vars
  /\ [](used.by = "none" => throughputData = EmptyCurve)

\* a hardware edit has just run the effect on the empty debounced text, and
\* the curve computed earlier from a non-empty text is still published
C9_Witness ==
  /\ dCfg = EmptyText /\ last.op \in {"numChange", "slideChange"}
  /\ hwVars # <<Num(1792), Num(209), Num(1), Num(1024)>>
  /\ used.by # "none" /\ throughputData # EmptyCurve

InRange(v, r) == v.k = "num" /\ JLe(r.min, v) /\ JLe(v, r.max)

\* the part of C8 about the ranges alone
HardwareInRange ==
  /\ InRange(memoryBandwidth, ranges.mem)
  /\ InRange(computePower, ranges.flops)
  /\ InRange(batchSize, ranges.batch)
  /\ InRange(maxSeqLen, ranges.seq)

\* C8: memory bandwidth and compute throughput lie in [0.1, 8192], batch size
\* is an integer in [1, 1024], maximum sequence length an integer in
\* [1024, 1048576].
C8_HardwareClamped == HardwareInRange /\ IsInteger(batchSize) /\ IsInteger(maxSeqLen)

NumericFields ==
  {"hidden_size", "num_hidden_layers", "intermediate_size", "vocab_size",
   "num_attention_heads", "num_key_value_heads"}

IsPosInt(v) == v.k = "num" /\ v.d = 1 /\ v.n > 0

\* a valid architecture record
ValidArch(m) ==
  /\ m.k = "obj"
  /\ \A f \in NumericFields : IsPosInt(Get(m, f))
  /\ Get(m, "num_key_value_heads").n <= Get(m, "num_attention_heads").n
  /\ Get(m, "hidden_size").n % Get(m, "num_attention_heads").n = 0

\* a record that decodes but is domain-invalid: no or zero attention heads, or
\* another numeric field absent
DomainInvalid(m) ==
  /\ m.k = "obj"
  /\ \/ Get(m, "num_attention_heads") \in {Undefined, Num(0)}
     \/ \E f \in NumericFields : Get(m, f) = Undefined

\* C3: for a domain-invalid record the estimator returns exactly 0 at every
\* sequence length and batch size.
C3_InvalidRecordGivesZero ==
  probe.fn = "throughput" /\ DomainInvalid(JSONparse(probe.text)) =>
    probe.out = Num(0) /\ probe.out2 = Num(0)

\* C6: for a valid record the throughput is finite and strictly positive, and
\* at the longer of two sequence lengths it is no larger than at the shorter.
C6_PositiveAndMonotone ==
  probe.fn = "throughput" /\ ValidArch(JSONparse(probe.text)) =>
    /\ probe.out.k = "num" /\ probe.out.n > 0
    /\ probe.out2.k = "num" /\ probe.out2.n > 0
    /\ JLe(probe.s1, probe.s2) => JLe(probe.out2, probe.out)

\* a valid record whose throughput at the longer length is strictly smaller
C6_Witness ==
  /\ probe.fn = "throughput" /\ ValidArch(JSONparse(probe.text))
  /\ JLt(probe.s1, probe.s2) /\ JLt(probe.out2, probe.out)

\* the closed form of the parameter count, in integer arithmetic
ParamFormula(m) ==
  LET H == Get(m, "hidden_size").n
      L == Get(m, "num_hidden_layers").n
      I == Get(m, "intermediate_size").n
      V == Get(m, "vocab_size").n
      A == Get(m, "num_attention_heads").n
      K == Get(m, "num_key_value_heads").n
      tied == Get(m, "tie_word_embeddings") = Bool(TRUE)
      gated == Get(m, "hidden_act") \in {Str("silu"), Str("swiglu"), Str("geglu")}
  IN  V * H * (IF tied THEN 1 ELSE 2)
      + L * (2 * H * H + 2 * H * K * (H \div A) + (IF gated THEN 3 ELSE 2) * H * I + 4 * H)

\* C7: for a valid record the parameter counter returns the integer of the
\* closed form, and 123,568,896 for the GPT-2-small shape.
C7_ExactParameterCount ==
  probe.fn = "params" /\ ValidArch(JSONparse(probe.text)) =>
    /\ probe.out = Num(ParamFormula(JSONparse(probe.text)))
    /\ probe.text = Gpt2Text => probe.out = Num(123568896)

\* the count of the GPT-2-small shape has been computed
C7_Witness == probe.fn = "params" /\ probe.text = Gpt2Text /\ probe.out = Num(123568896)

\* max(1, floor(ms / 800)), in integer arithmetic
StepFormula(ms) ==
  LET f == (ms.n \div ms.d) \div 800 IN IF f < 1 THEN 1 ELSE f

\* C10: the sampled sequence lengths are 1, 1 + step, 1 + 2 * step, ... up to
\* the largest one that does not exceed maxSeqLen, with
\* step = max(1, floor(maxSeqLen / 800)); they are strictly increasing and
\* there are fewer than 1600 of them.
C10_Sampling ==
  probe.fn = "sample" =>
    LET xs == probe.out.total.x
        st == StepFormula(probe.s1)
    IN  /\ Len(xs) >= 1 /\ Len(xs) < 1600
        /\ xs[1] = Num(1)
        /\ \A i \in 2..Len(xs) : xs[i] = Num(xs[i - 1].n + st) /\ JLt(xs[i - 1], xs[i])
        /\ JLe(xs[Len(xs)], probe.s1)
        /\ ~JLe(Num(xs[Len(xs)].n + st), probe.s1)
        /\ probe.out.perUser.x = xs

\* the largest maxSeqLen has been sampled, in 801 points
C10_Witness ==
  probe.fn = "sample" /\ probe.s1 = Num(1048576) /\ Len(probe.out.total.x) = 801

=============================================================================
